---- MODULE Spec2Model ----
(***************************************************************************)
(* somethink: the catalog (data/database.py, one sqlite3 connection shared *)
(* by every thread), the indexer (engine/indexer.py) and their callers.    *)
(*                                                                         *)
(* The Store is modelled statement by statement: every cursor.execute and  *)
(* every conn.commit of database.py is one step of the calling thread, and *)
(* steps of different threads interleave, as sqlite's connection mutex     *)
(* makes one statement atomic and nothing in database.py makes a whole     *)
(* method atomic.  db is what the shared connection sees (its open         *)
(* transaction included), disk is what the last commit made durable.       *)
(*                                                                         *)
(* files_fts is an fts5 table with content='files': its index is a set of  *)
(* postings <<rowid, term>>; a DELETE on it reads the row to un-index from *)
(* the files table as that table is at the time of the DELETE.             *)
(***************************************************************************)
EXTENDS Integers, Sequences, FiniteSets, TLC

\* ---------------------------------------------------------------- bounds
MaxCalls == 2          \* Store calls issued in one behaviour of two threads
MaxSeqCalls == 3       \* Store calls issued in one behaviour of a single thread
MaxFaults == 1         \* statements of insert_file that raise in one behaviour
MaxStarts == 2         \* start_indexing calls in one behaviour
MaxFiles == 2          \* candidates one scan enumerates
MaxRoots == 2          \* paths given to one start_indexing call
MaxUpdates == 1        \* update_single_file calls in one behaviour
MaxResults == 2        \* max_results of a search, limit of a text search
MaxSearches == 2       \* <KeyRelease> events, and so searches, in one behaviour
MaxTopicCalls == 2     \* insert_topic calls and clustering runs in one behaviour

\* ---------------------------------------------------------------- inputs
Threads == {"main", "index"}

Paths == {"/a/doc.txt", "/b/memo.md"}

\* file_scanner.get_file_info: filename is the last segment of the path; a text is
\* the sequence of its words.
FileName(path) ==
  IF path = "/a/doc.txt" THEN <<"doc", "txt">> ELSE <<"memo", "md">>

Contents == { <<"alpha", "beta", "beta">>, <<"gamma">> }

\* A datetime is <<seconds, microseconds>>; datetime.fromtimestamp(st_mtime) of
\* get_file_info yields one.
Mtimes == { <<1, 5>>, <<2, 0>> }

\* datetime <= datetime
DtLeq(a, b) == a[1] < b[1] \/ (a[1] = b[1] /\ a[2] <= b[2])

\* sqlite3's adapter for a datetime bound as a parameter, isoformat(" "): the
\* text has the fraction only when microsecond is not 0.
IsoFormat(dt) == IF dt[2] = 0 THEN <<dt[1]>> ELSE <<dt[1], dt[2]>>

\* Mutant of FromIsoFormat: the fraction is dropped.
FromIsoFormatSeconds(txt) == <<txt[1], 0>>

\* datetime.fromisoformat(str(existing['modified_time']))
FromIsoFormat(txt) == <<txt[1], IF Len(txt) >= 2 THEN txt[2] ELSE 0>>

TopicIds == {1}

\* The topic numbers of a clustering: BERTopic numbers its topics from 0 and gives
\* the outliers -1.
Outlier == -1

ClusterIds == {Outlier, 0, 1}

FileInfos ==
  { [path |-> p, filename |-> FileName(p), content_text |-> c, modified_time |-> m] :
      p \in Paths, c \in Contents, m \in Mtimes }

\* file_info.get('path') of a dict without the key is None, bound as SQL NULL.
NullPath == "None"

\* The paths the Store contract asks insert_file to refuse: empty and missing.
BadPaths == {"", NullPath}

BadPathInfos ==
  { [path |-> p, filename |-> FileName("/a/doc.txt"), content_text |-> c,
     modified_time |-> m] : p \in BadPaths, c \in Contents, m \in Mtimes }

NoFileInfo ==
  [path |-> "", filename |-> <<>>, content_text |-> <<>>, modified_time |-> <<0, 0>>]

\* ----------------------------------------------------- the sqlite schema
\* The fts5 tokenizer: the terms of a text.
Tokens(text) == { text[i] : i \in DOMAIN text }

RowTokens(filename, content_text) == Tokens(filename) \cup Tokens(content_text)

Terms == UNION { RowTokens(FileName(p), c) : p \in Paths, c \in Contents }

EmptyDb == [files |-> {}, files_fts |-> {}, metadata |-> {}, topics |-> {}, seq |-> 0]

\* SELECT id FROM files WHERE path = ?
SelectIdByPath(d, path) == { r.id : r \in { x \in d.files : x.path = path } }

\* Mutant of FetchOneId: the lookup never finds the record.
FetchOneIdNever(ids) == 0

\* fetchone() of that SELECT: the id, or 0 for None.
FetchOneId(ids) == IF ids = {} THEN 0 ELSE CHOOSE i \in ids : \A j \in ids : i <= j

\* Mutant of UpdateFilesRow: INSERT OR REPLACE INTO files, which drops the row of
\* the path and writes a new one under a new id.
UpdateFilesRowReplacing(d, fi, id) ==
  [d EXCEPT !.files = { r \in @ : r.id # id } \cup
                        { [id |-> d.seq + 1, path |-> fi.path, filename |-> fi.filename,
                           content_text |-> fi.content_text,
                           modified_time |-> IsoFormat(fi.modified_time), topic_id |-> {}] },
            !.seq = @ + 1]

\* Mutant of UpdateFilesRow: the UPDATE also sets topic_id = NULL.
UpdateFilesRowClearingTopic(d, fi, id) ==
  [d EXCEPT !.files =
     { IF r.id = id
         THEN [r EXCEPT !.filename = fi.filename,
                        !.content_text = fi.content_text,
                        !.modified_time = IsoFormat(fi.modified_time),
                        !.topic_id = {}]
         ELSE r : r \in @ }]

\* UPDATE files SET filename, ..., modified_time, content_text WHERE id = ?
UpdateFilesRow(d, fi, id) ==
  [d EXCEPT !.files =
     { IF r.id = id
         THEN [r EXCEPT !.filename = fi.filename,
                        !.content_text = fi.content_text,
                        !.modified_time = IsoFormat(fi.modified_time)]
         ELSE r : r \in @ }]

\* Mutant of PathTaken: the path column without its UNIQUE constraint.
PathTakenUnenforced(d, path) == FALSE

\* path TEXT UNIQUE NOT NULL: the INSERT below fails when the path is taken.
PathTaken(d, path) == \E r \in d.files : r.path = path

\* path TEXT UNIQUE NOT NULL: the INSERT fails when the path is NULL.  The empty
\* string is not NULL.
PathIsNull(path) == path = NullPath

\* Mutant of InsertFilesRow: id INTEGER PRIMARY KEY without AUTOINCREMENT, one
\* more than the largest id in the table.
InsertFilesRowMaxRowid(d, fi) ==
  LET ids == { r.id : r \in d.files } \cup {0}
      largest == CHOOSE m \in ids : \A x \in ids : x <= m
  IN [d EXCEPT !.files = @ \cup { [id |-> largest + 1, path |-> fi.path,
                                   filename |-> fi.filename,
                                   content_text |-> fi.content_text,
                                   modified_time |-> IsoFormat(fi.modified_time),
                                   topic_id |-> {}] },
               !.seq = IF largest + 1 > @ THEN largest + 1 ELSE @]

\* INSERT INTO files (path, filename, ..., content_text): id INTEGER PRIMARY KEY
\* AUTOINCREMENT is one more than every id ever given; topic_id and
\* embedding_vector are not listed and start NULL (the empty set here).
InsertFilesRow(d, fi) ==
  [d EXCEPT !.files = @ \cup { [id |-> d.seq + 1, path |-> fi.path,
                                filename |-> fi.filename,
                                content_text |-> fi.content_text,
                                modified_time |-> IsoFormat(fi.modified_time),
                                topic_id |-> {}] },
            !.seq = @ + 1]

\* The postings fts5 derives from a files row.
IndexedTerms(r) == { <<r.id, tk>> : tk \in RowTokens(r.filename, r.content_text) }

\* DELETE FROM files_fts WHERE rowid = ?: content='files', so the terms to un-index
\* are those of the files row with that id as it is now; no such row, nothing
\* removed.
FtsDeleteRow(d, id) ==
  [d EXCEPT !.files_fts =
     @ \ UNION { IndexedTerms(r) : r \in { x \in d.files : x.id = id } }]

\* INSERT INTO files_fts(rowid, filename, content_text) VALUES (?, ?, ?)
FtsInsertRow(d, id, filename, content_text) ==
  [d EXCEPT !.files_fts = @ \cup { <<id, tk>> : tk \in RowTokens(filename, content_text) }]

\* Mutant of DeleteFilesRow: DELETE FROM files WHERE id <= ?
DeleteFilesRowUpTo(d, id) == [d EXCEPT !.files = { r \in @ : r.id > id }]

\* DELETE FROM files WHERE id = ?  (PRAGMA foreign_keys is never set, so the
\* metadata table's ON DELETE CASCADE does not run)
DeleteFilesRow(d, id) == [d EXCEPT !.files = { r \in @ : r.id # id }]

\* UPDATE files SET topic_id = ?, embedding_vector = ? WHERE id = ?
UpdateTopicOfRow(d, id, tid) ==
  [d EXCEPT !.files = { IF r.id = id THEN [r EXCEPT !.topic_id = {tid}] ELSE r : r \in @ }]

\* DELETE FROM files_fts: the rows it walks are those of the content table.
FtsDeleteAll(d) ==
  [d EXCEPT !.files_fts =
     @ \ UNION { IndexedTerms(r) : r \in d.files }]

\* SELECT f.* FROM files f JOIN files_fts fts ON f.id = fts.rowid WHERE files_fts MATCH ?
SearchRows(d, term) == { r \in d.files : <<r.id, term>> \in d.files_fts }

\* The ids that have an entry in the full-text index.
FtsRowIds(d) == { p[1] : p \in d.files_fts }

\* ------------------------------------------------------------------ state
VARIABLES
  db,        \* the tables as the shared connection sees them (open transaction included)
  disk,      \* the tables as of the last conn.commit()
  pc,        \* per thread: the statement of database.py it is about to execute
  loc,       \* per thread: the arguments and locals of its current Store call
  budget,    \* Store calls still to be issued
  faults,    \* n: statements that have raised; orphans: the files rows a failed
             \* insert_file had written before it raised
  is_indexing,  \* Indexer.is_indexing
  wk,        \* the threads start_indexing has started, in order: each one's place in
             \* _index_worker and its locals; the last is Indexer.index_thread
  reports,   \* the calls of complete_callback so far: <<indexed_files, total_files>>
  rejected,  \* start_indexing calls that returned at "if self.is_indexing"
  extractions,  \* calls of scanner.extract_text_content so far
  usf,       \* update_single_file: n calls so far, the last one's file
  index_paths,  \* config.get_index_paths(): the configured roots
  wait_on    \* wait_for_completion: thread is -1 when no caller is inside it, else
             \* the place in wk of the thread it joins (0: it had no live thread to
             \* join); starts is the number of start_indexing calls made before it
  ,
  sq,        \* Searcher.search: the arguments and locals of the call, the calls it
             \* made of the Store's text search and of the provider
  topic_model,  \* Searcher.topic_model: TRUE when a provider is attached
  app        \* SomeThinkApp and what hangs on it outside the Store and the indexer:
             \* the calls of rebuild_index, the TopicModel's last clustering run
             \* and embeddings, the search window

vars == <<db, disk, pc, loc, budget, faults, is_indexing, wk, reports, rejected,
          extractions, usf, index_paths, wait_on, sq, topic_model, app>>

\* The indexer's state, which no Store call touches.
ix == <<is_indexing, wk, reports, rejected, extractions, usf, index_paths, wait_on,
        sq, topic_model, app>>

\* The Store threads' state and the searcher's, which the indexer's steps leave
\* alone.
st == <<pc, loc, budget, faults, sq, topic_model, app>>

NotWaiting == [thread |-> -1, starts |-> 0]

\* No rebuild_index call and no clustering run yet.
IdleApp ==
  [rebuilds |-> 0,        \* calls of rebuild_index
   runs_before |-> 0,     \* the threads started before the last rebuild_index
   saves |-> 0,           \* calls of _save_topics_to_db
   topic_info |-> {},     \* the topic numbers of the last fitted model
   embeddings |-> <<>>,   \* TopicModel.embeddings: per row, the id of the file whose
                          \* content was encoded into it
   similar |-> <<>>,      \* what find_similar_documents returned last: per entry
                          \* the file_id and the row whose similarity it carries
   window |->             \* MainWindow
     [entry |-> <<>>,     \* search_entry.get()
      timer |-> FALSE,    \* search_timer is pending
      keys |-> 0,         \* <KeyRelease> events so far
      issued |-> <<>>,    \* the queries of the _perform_search calls, in order
      threads |-> {},     \* the _search_worker threads running: their place in issued
      queue |-> <<>>,     \* the after(0, ...) callbacks not yet run: query and results
      displayed |-> <<>>]]  \* the result items in results_scroll

IdleSearch ==
  [pc |-> "idle", op |-> "none", query |-> <<>>, max_results |-> 0, limit |-> 0,
   use_semantic |-> FALSE,
   keyword_results |-> <<>>, rows |-> <<>>, semantic_results |-> <<>>,
   outcome |-> [raises |-> FALSE, docs |-> <<>>], combined |-> <<>>, result |-> <<>>,
   store_calls |-> 0, provider_calls |-> 0, raised |-> FALSE]

IdleLoc ==
  [op |-> "none", fi |-> NoFileInfo, fid |-> 0, path |-> "", tid |-> 0, term |-> "",
   ret_id |-> 0, ret_rows |-> {}, raised |-> FALSE, wrote |-> {},
   pre |-> EmptyDb, seen |-> EmptyDb, has_seen |-> FALSE,
   prev_op |-> "none", prev_fi |-> NoFileInfo]

Ready(t) == pc[t] \in {"idle", "done"}

NoArgs == [fi |-> NoFileInfo, fid |-> 0, path |-> "", tid |-> 0, term |-> ""]

\* The ids a caller may pass: every id given so far and one never given.
IdArgs == 1..(db.seq + 1)

\* Thread t calls a Database method with these arguments; the connection's state
\* as the call begins is kept for the claims that compare before and after.
Entered(t, op, args) ==
  [IdleLoc EXCEPT !.op = op, !.fi = args.fi, !.fid = args.fid, !.path = args.path,
                  !.tid = args.tid, !.term = args.term, !.pre = db,
                  !.prev_op = loc[t].op, !.prev_fi = loc[t].fi]

CanCall(t) ==
  /\ Ready(t)
  /\ budget > 0

Goto(t, next) ==
  /\ pc' = [pc EXCEPT ![t] = next]
  /\ UNCHANGED ix

\* ------------------------------------------------------------ insert_file
\* database.py 106-112: the call, the SELECT and the branch on its result.
InsertFileEntry(t, fi) ==
  LET existing == FetchOneId(SelectIdByPath(db, fi.path)) IN
    /\ loc' = [loc EXCEPT ![t] =
                 Entered(t, "insert_file", [NoArgs EXCEPT !.fi = fi, !.fid = existing])]
    /\ Goto(t, IF existing # 0 THEN "ins_update" ELSE "ins_insert")
    /\ budget' = budget - 1
    /\ UNCHANGED <<db, disk, faults>>

CallInsertFile(t) ==
  /\ CanCall(t)
  /\ \E fi \in FileInfos : InsertFileEntry(t, fi)

\* insert_file called with an empty path or without one: no check of the path
\* precedes the SELECT.
CallInsertFileBadPath(t) ==
  /\ CanCall(t)
  /\ \E fi \in BadPathInfos : InsertFileEntry(t, fi)

\* database.py 114-129: UPDATE files ... WHERE id = file_id.
InsUpdate(t) ==
  /\ pc[t] = "ins_update"
  /\ db' = UpdateFilesRow(db, loc[t].fi, loc[t].fid)
  /\ loc' = [loc EXCEPT ![t].wrote = { r \in db'.files : r.id = loc[t].fid }]
  /\ Goto(t, "ins_ftsdel")
  /\ UNCHANGED <<disk, budget, faults>>

\* database.py 132: DELETE FROM files_fts WHERE rowid = file_id.
InsFtsDelete(t) ==
  /\ pc[t] = "ins_ftsdel"
  /\ db' = FtsDeleteRow(db, loc[t].fid)
  /\ Goto(t, "ins_ftsins")
  /\ UNCHANGED <<disk, loc, budget, faults>>

\* database.py 135-150: INSERT INTO files and cursor.lastrowid; the UNIQUE and
\* NOT NULL constraints on path make the statement raise sqlite3.IntegrityError,
\* which insert_file does not catch.
InsInsert(t) ==
  /\ pc[t] = "ins_insert"
  /\ IF PathTaken(db, loc[t].fi.path) \/ PathIsNull(loc[t].fi.path)
       THEN /\ loc' = [loc EXCEPT ![t].raised = TRUE]
            /\ Goto(t, "done")
            /\ UNCHANGED db
       ELSE /\ db' = InsertFilesRow(db, loc[t].fi)
            /\ loc' = [loc EXCEPT ![t].fid = db'.seq,
                                  ![t].wrote = { r \in db'.files : r.id = db'.seq }]
            /\ Goto(t, "ins_ftsins")
  /\ UNCHANGED <<disk, budget, faults>>

\* database.py 153-156: INSERT INTO files_fts(rowid, filename, content_text).
InsFtsInsert(t) ==
  /\ pc[t] = "ins_ftsins"
  /\ db' = FtsInsertRow(db, loc[t].fid, loc[t].fi.filename, loc[t].fi.content_text)
  /\ Goto(t, "ins_commit")
  /\ UNCHANGED <<disk, loc, budget, faults>>

\* database.py 158-159: conn.commit() and return file_id.
InsCommit(t) ==
  /\ pc[t] = "ins_commit"
  /\ disk' = db
  /\ loc' = [loc EXCEPT ![t].ret_id = loc[t].fid]
  /\ faults' = [faults EXCEPT !.orphans = @ \ loc[t].wrote]
  /\ Goto(t, "done")
  /\ UNCHANGED <<db, budget>>

\* A statement of insert_file raises sqlite3.Error.  sqlite undoes the failing
\* statement; for SQLITE_FULL, SQLITE_IOERR and SQLITE_NOMEM it may roll the open
\* transaction back as well, for the others (SQLITE_BUSY, SQLITE_CORRUPT_VTAB, ...)
\* the transaction stays open.  insert_file has no try/except and no rollback, so
\* the exception leaves the method with whatever sqlite left.
InsertFileRaises(t) ==
  /\ pc[t] \in {"ins_update", "ins_insert", "ins_ftsdel", "ins_ftsins", "ins_commit"}
  /\ faults.n < MaxFaults
  /\ \E rolled_back \in BOOLEAN :
       /\ db' = IF rolled_back THEN disk ELSE db
       /\ faults' = [n |-> faults.n + 1,
                     orphans |-> IF rolled_back
                                   THEN faults.orphans
                                   ELSE faults.orphans \cup (loc[t].wrote \ loc[t].pre.files)]
  /\ loc' = [loc EXCEPT ![t].raised = TRUE]
  /\ Goto(t, "done")
  /\ UNCHANGED <<disk, budget>>

\* ------------------------------------------------------ update_file_topic
\* database.py 163-169: the call and its UPDATE.
CallUpdateFileTopic(t) ==
  /\ CanCall(t)
  /\ \E fid \in IdArgs, tid \in TopicIds :
       /\ loc' = [loc EXCEPT ![t] =
                    Entered(t, "update_file_topic", [NoArgs EXCEPT !.fid = fid, !.tid = tid])]
       /\ db' = UpdateTopicOfRow(db, fid, tid)
  /\ Goto(t, "uft_commit")
  /\ budget' = budget - 1
  /\ UNCHANGED <<disk, faults>>

\* database.py 171
UftCommit(t) ==
  /\ pc[t] = "uft_commit"
  /\ disk' = db
  /\ Goto(t, "done")
  /\ UNCHANGED <<db, loc, budget, faults>>

\* ------------------------------------------------------------ delete_file
\* database.py 250-252: DELETE FROM files WHERE id = ?
DeleteFileFirst(t, fid) ==
  /\ db' = DeleteFilesRow(db, fid)
  /\ Goto(t, "del_fts")
  /\ UNCHANGED <<disk, faults>>

CallDeleteFile(t) ==
  /\ CanCall(t)
  /\ \E fid \in IdArgs :
       /\ loc' = [loc EXCEPT ![t] = Entered(t, "delete_file", [NoArgs EXCEPT !.fid = fid])]
       /\ DeleteFileFirst(t, fid)
  /\ budget' = budget - 1

\* database.py 253: DELETE FROM files_fts WHERE rowid = ?
DelFts(t) ==
  /\ pc[t] = "del_fts"
  /\ db' = FtsDeleteRow(db, loc[t].fid)
  /\ Goto(t, "del_commit")
  /\ UNCHANGED <<disk, loc, budget, faults>>

\* database.py 255
DelCommit(t) ==
  /\ pc[t] = "del_commit"
  /\ disk' = db
  /\ Goto(t, "done")
  /\ UNCHANGED <<db, loc, budget, faults>>

\* ---------------------------------------------------- delete_file_by_path
\* database.py 259-263: get_file_by_path and the test of its result.
CallDeleteFileByPath(t) ==
  /\ CanCall(t)
  /\ \E path \in Paths :
       LET found == FetchOneId(SelectIdByPath(db, path)) IN
         /\ loc' = [loc EXCEPT ![t] =
                      Entered(t, "delete_file_by_path", [NoArgs EXCEPT !.path = path, !.fid = found])]
         /\ Goto(t, IF found # 0 THEN "dbp_delete" ELSE "done")
  /\ budget' = budget - 1
  /\ UNCHANGED <<db, disk, faults>>

\* database.py 264: self.delete_file(file['id'])
DbpDelete(t) ==
  /\ pc[t] = "dbp_delete"
  /\ DeleteFileFirst(t, loc[t].fid)
  /\ UNCHANGED <<loc, budget>>

\* ----------------------------------------------------------- insert_topic
\* database.py 271-281: INSERT OR REPLACE INTO topics
CallInsertTopicOf(t, ids) ==
  /\ CanCall(t)
  /\ \E tid \in ids :
       /\ loc' = [loc EXCEPT ![t] = Entered(t, "insert_topic", [NoArgs EXCEPT !.tid = tid])]
       /\ db' = [db EXCEPT !.topics = @ \cup {tid}]
  /\ Goto(t, "top_commit")
  /\ budget' = budget - 1
  /\ UNCHANGED <<disk, faults>>

CallInsertTopic(t) == CallInsertTopicOf(t, TopicIds)

\* database.py 283
TopCommit(t) ==
  /\ pc[t] = "top_commit"
  /\ disk' = db
  /\ Goto(t, "done")
  /\ UNCHANGED <<db, loc, budget, faults>>

\* --------------------------------------------------------- clear_all_data
\* database.py 357-359: DELETE FROM files
CallClearAllData(t) ==
  /\ CanCall(t)
  /\ loc' = [loc EXCEPT ![t] = Entered(t, "clear_all_data", NoArgs)]
  /\ db' = [db EXCEPT !.files = {}]
  /\ Goto(t, "clr_topics")
  /\ budget' = budget - 1
  /\ UNCHANGED <<disk, faults>>

\* database.py 360: DELETE FROM topics
ClrTopics(t) ==
  /\ pc[t] = "clr_topics"
  /\ db' = [db EXCEPT !.topics = {}]
  /\ Goto(t, "clr_metadata")
  /\ UNCHANGED <<disk, loc, budget, faults>>

\* database.py 361: DELETE FROM metadata
ClrMetadata(t) ==
  /\ pc[t] = "clr_metadata"
  /\ db' = [db EXCEPT !.metadata = {}]
  /\ Goto(t, "clr_fts")
  /\ UNCHANGED <<disk, loc, budget, faults>>

\* database.py 362: DELETE FROM files_fts
ClrFts(t) ==
  /\ pc[t] = "clr_fts"
  /\ db' = FtsDeleteAll(db)
  /\ Goto(t, "clr_commit")
  /\ UNCHANGED <<disk, loc, budget, faults>>

\* database.py 364
ClrCommit(t) ==
  /\ pc[t] = "clr_commit"
  /\ disk' = db
  /\ Goto(t, "done")
  /\ UNCHANGED <<db, loc, budget, faults>>

\* ---------------------------------------------------------------- readers
\* One SELECT each: the call and its result are one step.  seen is the
\* connection's state the SELECT ran against.
Read(t, op, args, rows) ==
  /\ CanCall(t)
  /\ loc' = [loc EXCEPT ![t] =
       [Entered(t, op, args) EXCEPT !.ret_rows = rows, !.seen = db, !.has_seen = TRUE]]
  /\ Goto(t, "done")
  /\ budget' = budget - 1
  /\ UNCHANGED <<db, disk, faults>>

\* database.py 173-182
GetFileByPath(t) ==
  \E path \in Paths :
    Read(t, "get_file_by_path", [NoArgs EXCEPT !.path = path],
         { r \in db.files : r.path = path })

\* database.py 184-193
GetFileById(t) ==
  \E fid \in IdArgs :
    Read(t, "get_file_by_id", [NoArgs EXCEPT !.fid = fid], { r \in db.files : r.id = fid })

\* database.py 195-218
SearchFilesByKeyword(t) ==
  \E term \in Terms :
    Read(t, "search_files_by_keyword", [NoArgs EXCEPT !.term = term], SearchRows(db, term))

\* database.py 232-238
GetAllFiles(t) == Read(t, "get_all_files", NoArgs, db.files)

\* database.py 285-298: SELECT * FROM topics WHERE id = ?; None when no row.
GetTopic(t) ==
  \E tid \in TopicIds :
    Read(t, "get_topic", [NoArgs EXCEPT !.tid = tid],
         { [id |-> x] : x \in db.topics \cap {tid} })

\* ------------------------------------------------------- specifications
Mutate(t) ==
  \/ CallInsertFile(t) \/ InsUpdate(t) \/ InsFtsDelete(t) \/ InsInsert(t)
  \/ InsFtsInsert(t) \/ InsCommit(t)
  \/ CallUpdateFileTopic(t) \/ UftCommit(t)
  \/ CallDeleteFile(t) \/ DelFts(t) \/ DelCommit(t)
  \/ CallDeleteFileByPath(t) \/ DbpDelete(t)
  \/ CallInsertTopic(t) \/ TopCommit(t)
  \/ CallClearAllData(t) \/ ClrTopics(t) \/ ClrMetadata(t) \/ ClrFts(t) \/ ClrCommit(t)

Query(t) ==
  \/ GetFileByPath(t) \/ GetFileById(t) \/ SearchFilesByKeyword(t) \/ GetAllFiles(t)
  \/ GetTopic(t)

InitWith(n, roots) ==
  /\ db = EmptyDb
  /\ disk = EmptyDb
  /\ pc = [t \in Threads |-> "idle"]
  /\ loc = [t \in Threads |-> IdleLoc]
  /\ budget = n
  /\ faults = [n |-> 0, orphans |-> {}]
  /\ is_indexing = FALSE
  /\ wk = <<>>
  /\ reports = <<>>
  /\ rejected = 0
  /\ extractions = 0
  /\ usf = [n |-> 0, cand |-> NoFileInfo, exists |-> FALSE]
  /\ wait_on = NotWaiting
  /\ sq = IdleSearch
  /\ topic_model = FALSE
  /\ app = IdleApp
  /\ index_paths \in roots

\* The Store's callers: the roots play no part.
StoreInit(n) == InitWith(n, { <<"dir">> })

\* One thread calls the Store, one call after the other.
SeqInit == StoreInit(MaxSeqCalls)

SeqNext == Mutate("main") \/ Query("main")

SpecSeq == SeqInit /\ [][SeqNext]_vars

\* Two threads call the Store on the one shared connection.
ConcInit == StoreInit(MaxCalls)

ConcNext == \E t \in Threads : Mutate(t) \/ Query(t)

SpecConc == ConcInit /\ [][ConcNext]_vars

\* One thread calls the Store and a statement of insert_file may raise.
FaultInit == StoreInit(MaxSeqCalls)

FaultNext == Mutate("main") \/ Query("main") \/ InsertFileRaises("main")

SpecFault == FaultInit /\ [][FaultNext]_vars

\* One thread calls the Store, also with paths that are empty or missing.
ValInit == StoreInit(MaxSeqCalls)

ValNext == Mutate("main") \/ Query("main") \/ CallInsertFileBadPath("main")

SpecVal == ValInit /\ [][ValNext]_vars

\* ---------------------------------------------------------------- indexer
\* What get_file_info yields for a file: no content_text yet.
Candidates ==
  { [path |-> p, filename |-> FileName(p), content_text |-> <<>>, modified_time |-> m] :
      p \in Paths, m \in Mtimes }

RECURSIVE SeqsUpTo(_, _)
SeqsUpTo(S, n) ==
  IF n = 0 THEN { <<>> }
  ELSE LET shorter == SeqsUpTo(S, n - 1) IN
         shorter \cup { Append(q, x) : q \in shorter, x \in S }

\* What scan_directory yields for one root that is a directory: each path once.
ScanResults ==
  { q \in SeqsUpTo(Candidates, MaxFiles) :
      \A i, j \in DOMAIN q : q[i].path = q[j].path => i = j }

\* A configured root, by what file_scanner.py 58-63 meets: "dir" exists and is a
\* directory (one that cannot be listed yields nothing from rglob); "missing"
\* does not exist or is no directory; for "denied" the stat of root.exists()
\* raises PermissionError (a directory above the root denies search).
RootKinds == {"dir", "missing", "denied"}

\* The paths argument of start_indexing.
RootLists == SeqsUpTo(RootKinds, MaxRoots) \ { <<>> }

\* One root is configured.
SingleRoots == { <<k>> : k \in RootKinds }

\* Database.insert_file run from its first statement to its commit with no other
\* thread in between.
InsertFileWhole(d, fi) ==
  LET existing == FetchOneId(SelectIdByPath(d, fi.path)) IN
    IF existing # 0
      THEN FtsInsertRow(FtsDeleteRow(UpdateFilesRow(d, fi, existing), existing),
                        existing, fi.filename, fi.content_text)
      ELSE LET d1 == InsertFilesRow(d, fi) IN
             FtsInsertRow(d1, d1.seq, fi.filename, fi.content_text)

\* Mutant of Unmodified: every candidate that has a record is skipped.
UnmodifiedWhenPresent(d, cand) == \E r \in d.files : r.path = cand.path

\* indexer.py 100-108: the record exists and its modified_time is not older.
Unmodified(d, cand) ==
  \E r \in d.files :
    r.path = cand.path /\ DtLeq(cand.modified_time, FromIsoFormat(r.modified_time))

\* indexer.py 97-120, _index_file returning: skip, or extract (content is what
\* extract_text_content returned, empty when it raised) and insert_file.
IndexFile(d, cand, content) ==
  IF Unmodified(d, cand) THEN d
  ELSE InsertFileWhole(d, [cand EXCEPT !.content_text = content])

\* The calls of extract_text_content _index_file makes for the candidate.
Extractions(d, cand) == IF Unmodified(d, cand) THEN 0 ELSE 1

NewWorker(paths) ==
  [pc |-> "started", paths |-> paths, r |-> 1, all_files |-> <<>>, i |-> 1,
   indexed_files |-> 0, total_files |-> 0,
   progress |-> <<>>,     \* the calls of progress_callback: <<current, total>>
   completes |-> 0,       \* the calls of complete_callback
   failures |-> 0,        \* the candidates whose _index_file raised
   extract_raised |-> 0,  \* the candidates whose extract_text_content raised
   error |-> "none"]      \* what raised the exception the outer except caught

Alive(w) == w \in DOMAIN wk /\ wk[w].pc # "dead"

\* main.py 70-96 and indexer.py 27-50, start_indexing with the configured roots:
\* the test of is_indexing, then the thread is created and started.  The flag is
\* not set here.
StartIndexing ==
  /\ Len(wk) + rejected < MaxStarts
  /\ IF is_indexing
       THEN /\ rejected' = rejected + 1
            /\ UNCHANGED wk
       ELSE /\ wk' = Append(wk, NewWorker(index_paths))
            /\ UNCHANGED rejected
  /\ UNCHANGED <<db, disk, st, is_indexing, reports, extractions, usf, index_paths, wait_on>>

\* indexer.py 54-62: the worker's first statements and progress_callback(0, 0,
\* ...); when the callback raises, the outer except follows.
WorkerBegin(w) ==
  /\ w \in DOMAIN wk
  /\ wk[w].pc = "started"
  /\ is_indexing' = TRUE
  /\ \E raises \in BOOLEAN :
       wk' = [wk EXCEPT ![w].progress = Append(@, <<0, 0>>),
                        ![w].error = IF raises THEN "progress_callback" ELSE @,
                        ![w].pc = IF raises THEN "finally" ELSE "scan"]
  /\ UNCHANGED <<db, disk, st, reports, rejected, extractions, usf, index_paths, wait_on>>

\* indexer.py 64-69 with file_scanner.py 58-77: the next root is scanned; after
\* the last one, total_files = len(all_files).
WorkerScan(w) ==
  /\ w \in DOMAIN wk
  /\ wk[w].pc = "scan"
  /\ wk[w].paths[wk[w].r] # "denied"
  /\ \E q \in ScanResults :
       LET files == wk[w].all_files \o q
           last == wk[w].r = Len(wk[w].paths)
       IN  /\ wk[w].paths[wk[w].r] = "missing" => q = <<>>
           /\ Len(files) <= MaxFiles
           /\ \A i, j \in DOMAIN files : files[i].path = files[j].path => i = j
           /\ wk' = [wk EXCEPT ![w].all_files = files,
                                ![w].r = @ + 1,
                                ![w].total_files = IF last THEN Len(files) ELSE @,
                                ![w].pc = IF last THEN "loop" ELSE "scan"]
  /\ UNCHANGED <<db, disk, st, is_indexing, reports, rejected, extractions, usf, index_paths, wait_on>>

\* Mutant of WorkerScanRaises: no finally clause, the thread ends with the flag
\* as it is.
WorkerScanRaisesThreadDies(w) ==
  /\ w \in DOMAIN wk
  /\ wk[w].pc = "scan"
  /\ wk[w].paths[wk[w].r] = "denied"
  /\ wk' = [wk EXCEPT ![w].pc = "dead", ![w].error = "scan_directory"]
  /\ UNCHANGED <<db, disk, st, is_indexing, reports, rejected, extractions, usf, index_paths, wait_on>>

\* file_scanner.py 60 raising PermissionError out of scan_directory: nothing in
\* indexer.py 64-67 catches it per root; the outer except prints, and the
\* finally clause follows.
WorkerScanRaises(w) ==
  /\ w \in DOMAIN wk
  /\ wk[w].pc = "scan"
  /\ wk[w].paths[wk[w].r] = "denied"
  /\ wk' = [wk EXCEPT ![w].pc = "finally", ![w].error = "scan_directory"]
  /\ UNCHANGED <<db, disk, st, is_indexing, reports, rejected, extractions, usf, index_paths, wait_on>>

\* What one call of scanner.extract_text_content does: it returns a text, or it
\* raises.
ExtractOutcomes ==
  { [raises |-> FALSE, text |-> c] : c \in Contents \cup { <<>> } } \cup
  { [raises |-> TRUE, text |-> <<>>] }

\* indexer.py 111-117: the text extract_text_content returned, "" when it raised.
ExtractedText(outcome) == IF outcome.raises THEN <<>> ELSE outcome.text

\* Mutant of WorkerIndexFile: no try/except around extract_text_content, its
\* exception leaves _index_file and the candidate counts as failed.
WorkerIndexFileExtractionPropagates(w) ==
  /\ w \in DOMAIN wk
  /\ wk[w].pc = "loop"
  /\ wk[w].i <= Len(wk[w].all_files)
  /\ \E outcome \in ExtractOutcomes :
       LET cand == wk[w].all_files[wk[w].i]
           raised == outcome.raises /\ ~Unmodified(db, cand)
       IN /\ db' = IF raised THEN db ELSE IndexFile(db, cand, ExtractedText(outcome))
          /\ wk' = [wk EXCEPT
               ![w].i = @ + 1,
               ![w].indexed_files = IF raised THEN @ ELSE @ + 1,
               ![w].failures = IF raised THEN @ + 1 ELSE @,
               ![w].extract_raised = IF raised THEN @ + 1 ELSE @,
               ![w].progress = IF raised THEN @ ELSE Append(@, <<wk[w].i, wk[w].total_files>>)]
  /\ disk' = IF db' = db THEN disk ELSE db'
  /\ extractions' = extractions + Extractions(db, wk[w].all_files[wk[w].i])
  /\ UNCHANGED <<st, is_indexing, reports, rejected, usf, index_paths, wait_on>>

\* indexer.py 72-81: one candidate, _index_file returning, then
\* progress_callback(i, total_files, ...); a raise of the callback is caught at
\* 83 and changes nothing more.
WorkerIndexFile(w) ==
  /\ w \in DOMAIN wk
  /\ wk[w].pc = "loop"
  /\ wk[w].i <= Len(wk[w].all_files)
  /\ \E outcome \in ExtractOutcomes :
       LET cand == wk[w].all_files[wk[w].i] IN
         /\ db' = IndexFile(db, cand, ExtractedText(outcome))
         /\ wk' = [wk EXCEPT
              ![w].i = @ + 1, ![w].indexed_files = @ + 1,
              ![w].extract_raised =
                 IF outcome.raises /\ ~Unmodified(db, cand) THEN @ + 1 ELSE @,
              ![w].progress = Append(@, <<wk[w].i, wk[w].total_files>>)]
  /\ disk' = IF db' = db THEN disk ELSE db'
  /\ extractions' = extractions + Extractions(db, wk[w].all_files[wk[w].i])
  /\ UNCHANGED <<st, is_indexing, reports, rejected, usf, index_paths, wait_on>>

\* Mutant of WorkerIndexFileRaises: no try/except around one candidate, the
\* exception reaches the outer except.
WorkerIndexFileAborts(w) ==
  /\ w \in DOMAIN wk
  /\ wk[w].pc = "loop"
  /\ wk[w].i <= Len(wk[w].all_files)
  /\ wk' = [wk EXCEPT ![w].failures = @ + 1, ![w].pc = "finally",
                       ![w].error = "_index_file"]
  /\ UNCHANGED <<db, disk, st, is_indexing, reports, rejected, extractions, usf, index_paths, wait_on>>

\* Mutant of WorkerIndexFileRaises: the candidate is counted before _index_file
\* is called.
WorkerIndexFileRaisesCounted(w) ==
  /\ w \in DOMAIN wk
  /\ wk[w].pc = "loop"
  /\ wk[w].i <= Len(wk[w].all_files)
  /\ wk' = [wk EXCEPT ![w].i = @ + 1, ![w].failures = @ + 1, ![w].indexed_files = @ + 1]
  /\ UNCHANGED <<db, disk, st, is_indexing, reports, rejected, extractions, usf, index_paths, wait_on>>

\* indexer.py 83-84: one candidate, _index_file raising (get_file_by_path,
\* fromisoformat or the first statement of insert_file); lines 75-81 are passed
\* over and the loop goes on.
WorkerIndexFileRaises(w) ==
  /\ w \in DOMAIN wk
  /\ wk[w].pc = "loop"
  /\ wk[w].i <= Len(wk[w].all_files)
  /\ wk' = [wk EXCEPT ![w].i = @ + 1, ![w].failures = @ + 1]
  /\ UNCHANGED <<db, disk, st, is_indexing, reports, rejected, extractions, usf, index_paths, wait_on>>

\* indexer.py 86-89: the loop is over; complete_callback(indexed_files,
\* total_files).  When it raises, the outer except prints; the finally clause
\* follows either way.
WorkerComplete(w) ==
  /\ w \in DOMAIN wk
  /\ wk[w].pc = "loop"
  /\ wk[w].i > Len(wk[w].all_files)
  /\ reports' = Append(reports, <<wk[w].indexed_files, wk[w].total_files>>)
  /\ wk' = [wk EXCEPT ![w].pc = "finally", ![w].completes = @ + 1]
  /\ UNCHANGED <<db, disk, st, is_indexing, rejected, extractions, usf, index_paths, wait_on>>

\* indexer.py 94-95: finally: self.is_indexing = False; the thread ends.
WorkerFinally(w) ==
  /\ w \in DOMAIN wk
  /\ wk[w].pc = "finally"
  /\ is_indexing' = FALSE
  /\ wk' = [wk EXCEPT ![w].pc = "dead"]
  /\ UNCHANGED <<db, disk, st, reports, rejected, extractions, usf, index_paths, wait_on>>

Worker(w) ==
  \/ WorkerBegin(w) \/ WorkerScan(w) \/ WorkerScanRaises(w)
  \/ WorkerIndexFile(w) \/ WorkerIndexFileRaises(w)
  \/ WorkerComplete(w) \/ WorkerFinally(w)

\* indexer.py 122-134, update_single_file on the caller's thread: the file is
\* gone (delete_file_by_path), or it is there and goes through _index_file.
UpdateSingleFile ==
  /\ usf.n < MaxUpdates
  /\ \E cand \in Candidates, exists \in BOOLEAN, content \in Contents \cup { <<>> } :
       /\ usf' = [n |-> usf.n + 1, cand |-> cand, exists |-> exists]
       /\ IF exists
            THEN /\ db' = IndexFile(db, cand, content)
                 /\ extractions' = extractions + Extractions(db, cand)
            ELSE /\ content = <<>>
                 /\ db' = LET found == FetchOneId(SelectIdByPath(db, cand.path)) IN
                            IF found = 0 THEN db
                            ELSE FtsDeleteRow(DeleteFilesRow(db, found), found)
                 /\ UNCHANGED extractions
  /\ disk' = IF db' = db THEN disk ELSE db'
  /\ UNCHANGED <<st, is_indexing, wk, reports, rejected, index_paths, wait_on>>

\* indexer.py 149-150, wait_for_completion: the test of index_thread, and the
\* thread the join is on, the one start_indexing started last.
WaitForCompletionCall ==
  /\ wait_on = NotWaiting
  /\ wait_on' = [thread |-> IF Len(wk) > 0 /\ Alive(Len(wk)) THEN Len(wk) ELSE 0,
                  starts |-> Len(wk) + rejected]
  /\ UNCHANGED <<db, disk, st, is_indexing, wk, reports, rejected, extractions, usf, index_paths>>

\* indexer.py 150: join() returns when that thread has ended; with no live thread
\* the method returns at once.
WaitForCompletionReturn ==
  /\ wait_on.thread >= 0
  /\ wait_on.thread > 0 => ~Alive(wait_on.thread)
  /\ wait_on' = NotWaiting
  /\ UNCHANGED <<db, disk, st, is_indexing, wk, reports, rejected, extractions, usf, index_paths>>

\* The caller's thread calls start_indexing; each started thread runs
\* _index_worker.
IdxInit == InitWith(0, RootLists)

IdxNext == StartIndexing \/ \E w \in 1..MaxStarts : Worker(w)

SpecIdx == IdxInit /\ [][IdxNext]_vars

\* No run is active: every started thread has ended.
Quiet == \A w \in DOMAIN wk : ~Alive(w)

\* A caller that starts a run only when the one before has ended (as the test at
\* indexer.py 168-169 does with wait_for_completion).
RunInit == InitWith(0, RootLists)

RunNext == (Quiet /\ StartIndexing) \/ \E w \in 1..MaxStarts : Worker(w)

SpecRun == RunInit /\ [][RunNext]_vars

\* The same, each thread taking its steps as long as it has one to take.
SpecRunFair == SpecRun /\ \A w \in 1..MaxStarts : WF_vars(Worker(w))

\* ... and that caller also calls update_single_file between the runs.
UpdInit == InitWith(0, SingleRoots)

UpdNext == RunNext \/ (Quiet /\ UpdateSingleFile)

SpecUpd == UpdInit /\ [][UpdNext]_vars

\* Callers that start runs at any time, and one that waits for completion.
WaitInit == InitWith(0, SingleRoots)

WaitNext == IdxNext \/ WaitForCompletionCall \/ WaitForCompletionReturn

SpecWait == WaitInit /\ [][WaitNext]_vars

\* --------------------------------------------------------------- searcher
\* Scores are counted in thousandths (0.5 is 500), final scores in ten-thousandths
\* (the weights 0.4 and 0.5 are 4 and 5): 1.0 is Unit, resp. FinalUnit.
Unit == 1000

FinalUnit == 10000

Min2(a, b) == IF a <= b THEN a ELSE b

Whitespace == {" ", "\t"}

\* A query is a sequence of pieces, each a run of whitespace or a word; the
\* queries with a word are one word long.
Queries == { <<>>, <<" ">>, <<" ", "\t">>, <<"beta">>, <<"BETA">>, <<"doc">>, <<"gamma">> }

\* str.lower()
Lower(w) == IF w = "BETA" THEN "beta" ELSE w

RECURSIVE LStrip(_)
LStrip(q) == IF q # <<>> /\ Head(q) \in Whitespace THEN LStrip(Tail(q)) ELSE q

RECURSIVE RStrip(_)
RStrip(q) ==
  IF q # <<>> /\ q[Len(q)] \in Whitespace THEN RStrip(SubSeq(q, 1, Len(q) - 1)) ELSE q

\* Mutant of Strip: nothing is stripped.
StripNothing(q) == q

\* str.strip()
Strip(q) == RStrip(LStrip(q))

\* The text of a query as the text engine and str.lower() take it.
QueryText(q) == IF q = <<>> THEN "" ELSE Lower(q[1])

\* The contents of the files a search runs over.
SearchContents == Contents \cup { <<"beta">> }

SearchInfos ==
  { [path |-> p, filename |-> FileName(p), content_text |-> c, modified_time |-> <<1, 5>>] :
      p \in Paths, c \in SearchContents }

\* The catalogs a search runs over: what insert_file made of up to MaxFiles files
\* of different paths.
Catalogs ==
  { EmptyDb } \cup
  { InsertFileWhole(EmptyDb, a) : a \in SearchInfos } \cup
  UNION { { InsertFileWhole(InsertFileWhole(EmptyDb, a), b) :
              b \in { x \in SearchInfos : x.path # a.path } } : a \in SearchInfos }

\* str.count(query) and len(content.split()), on a text as the sequence of its words.
Occurrences(text, w) == Cardinality({ i \in DOMAIN text : text[i] = w })

DocLen(r) == Len(r.filename) + Len(r.content_text)

TermFreq(r, w) == Occurrences(r.filename, w) + Occurrences(r.content_text, w)

RECURSIVE TotalLen(_)
TotalLen(S) ==
  IF S = {} THEN 0 ELSE LET r == CHOOSE x \in S : TRUE IN DocLen(r) + TotalLen(S \ {r})

\* fts5's rank is bm25 with k1 = 1.2 and b = 0.75: for one term the score of a row
\* grows with tf / (tf + k1 * (0.25 + 0.75 * len / avglen)), so row a scores above
\* row b when tf_a * (total + 3 * n * len_b) > tf_b * (total + 3 * n * len_a).
Bm25Above(d, w, a, b) ==
  LET n == Cardinality(d.files)
      total == TotalLen(d.files)
  IN TermFreq(a, w) * (total + 3 * n * DocLen(b)) > TermFreq(b, w) * (total + 3 * n * DocLen(a))

\* Mutant of RanksBefore: rows of equal rank come by id descending.
RanksBeforeTiesReversed(d, w, a, b) ==
  \/ Bm25Above(d, w, a, b)
  \/ ~Bm25Above(d, w, b, a) /\ a.id > b.id

\* ORDER BY rank: fts5 walks the matching rows by rowid ascending and sqlite's
\* sorter keeps that order among rows of equal rank.
RanksBefore(d, w, a, b) ==
  \/ Bm25Above(d, w, a, b)
  \/ ~Bm25Above(d, w, b, a) /\ a.id < b.id

RECURSIVE RankOrder(_, _, _)
RankOrder(d, w, S) ==
  IF S = {} THEN <<>>
  ELSE LET first == CHOOSE a \in S : \A b \in S \ {a} : RanksBefore(d, w, a, b) IN
         <<first>> \o RankOrder(d, w, S \ {first})

\* LIMIT ?: a negative limit is no limit.
Limit(q, n) == IF n < 0 \/ n >= Len(q) THEN q ELSE SubSeq(q, 1, n)

\* database.py 195-218, search_files_by_keyword as a list.
SearchFilesByKeywordList(d, keyword, limit) ==
  Limit(RankOrder(d, keyword, SearchRows(d, keyword)), limit)

\* list.sort(key=lambda x: x[1], reverse=True): stable, by score descending.
RECURSIVE InsertByScore(_, _)
InsertByScore(sorted, e) ==
  IF sorted = <<>> THEN <<e>>
  ELSE IF sorted[Len(sorted)][2] >= e[2] THEN Append(sorted, e)
  ELSE Append(InsertByScore(SubSeq(sorted, 1, Len(sorted) - 1), e), sorted[Len(sorted)])

RECURSIVE SortByScoreDesc(_)
SortByScoreDesc(q) ==
  IF q = <<>> THEN <<>>
  ELSE InsertByScore(SortByScoreDesc(SubSeq(q, 1, Len(q) - 1)), q[Len(q)])

\* searcher.py 68-87: 0.5 for the query in the filename, and
\* min(count / max(words, 1) * 100, 0.5) for its occurrences in the content.
KeywordScore(file, text) ==
  (IF Occurrences(file.filename, text) > 0 THEN Unit \div 2 ELSE 0) +
  (IF file.content_text # <<>>
     THEN Min2((Occurrences(file.content_text, text) * 100 * Unit)
                 \div Len(file.content_text), Unit \div 2)
     ELSE 0)

\* searcher.py 55-92, _keyword_search
KeywordSearch(d, query, limit) ==
  LET results == SearchFilesByKeywordList(d, QueryText(query), limit) IN
    SortByScoreDesc([i \in DOMAIN results |->
                       <<results[i], KeywordScore(results[i], QueryText(query))>>])

\* What find_similar_documents hands back: a list of <<file_id, similarity>> of
\* different files, at most top_n long, or an exception.  The similarity is a
\* cosine, which no code keeps inside [0, 1].
Similarities == { -500, 300, 1700 }

ProviderLists(top_n) ==
  { q \in SeqsUpTo((1..3) \X Similarities, Min2(top_n, 2)) :
      \A i, j \in DOMAIN q : q[i][1] = q[j][1] => i = j }

\* What one call of the provider does.
ProviderOutcomes(top_n) ==
  { [raises |-> TRUE, docs |-> <<>>] } \cup
  { [raises |-> FALSE, docs |-> q] : q \in ProviderLists(top_n) }

RECURSIVE SemanticRows(_, _)
SemanticRows(d, docs) ==
  IF docs = <<>> THEN <<>>
  ELSE LET found == { r \in d.files : r.id = Head(docs)[1] } IN
         (IF found = {} THEN <<>> ELSE << <<CHOOSE r \in found : TRUE, Head(docs)[2]>> >>)
           \o SemanticRows(d, Tail(docs))

\* searcher.py 104-119: every file the Store still has, with its similarity; an
\* exception of the provider is caught and gives the empty list.
SemanticSearch(d, outcome) ==
  IF outcome.raises THEN <<>> ELSE SemanticRows(d, outcome.docs)

\* searcher.py 133-147: the dict keyed by path, in insertion order.
RECURSIVE CombinedOf(_, _, _)
CombinedOf(acc, results, signal) ==
  IF results = <<>> THEN acc
  ELSE LET file == Head(results)[1]
           score == Head(results)[2]
           at == { i \in DOMAIN acc : acc[i].file.path = file.path }
           acc1 == IF at = {}
                     THEN Append(acc, [file |-> file, keyword_score |-> 0, semantic_score |-> 0])
                     ELSE acc
           k == IF at = {} THEN Len(acc1) ELSE CHOOSE i \in at : TRUE
       IN CombinedOf([acc1 EXCEPT ![k] =
                        IF signal = "keyword" THEN [@ EXCEPT !.keyword_score = score]
                                              ELSE [@ EXCEPT !.semantic_score = score]],
                     Tail(results), signal)

\* searcher.py 154-155: min(score, 1.0)
Clamp(score) == Min2(score, Unit)

\* Mutant of FinalScore: the weight of the lexical score is taken off.
FinalScoreInverted(data, keyword_weight, semantic_weight) ==
  semantic_weight * Clamp(data.semantic_score) - keyword_weight * Clamp(data.keyword_score)

\* searcher.py 158-162
FinalScore(data, keyword_weight, semantic_weight) ==
  keyword_weight * Clamp(data.keyword_score) + semantic_weight * Clamp(data.semantic_score)

\* searcher.py 121-169, _combine_results
CombineResults(keyword_results, semantic_results, keyword_weight, semantic_weight) ==
  LET combined == CombinedOf(CombinedOf(<<>>, keyword_results, "keyword"),
                             semantic_results, "semantic")
  IN SortByScoreDesc([i \in DOMAIN combined |->
                       <<combined[i].file,
                         FinalScore(combined[i], keyword_weight, semantic_weight)>>])

\* Mutant of Slice: the whole list.
SliceAll(q, n) == q

\* list[:n]
Slice(q, n) ==
  IF n >= 0 THEN SubSeq(q, 1, Min2(n, Len(q)))
  ELSE SubSeq(q, 1, IF Len(q) + n >= 0 THEN Len(q) + n ELSE 0)

\* searcher.py 20-34, search: the call and the test of query.strip().
SearchCall ==
  /\ sq.pc = "idle"
  /\ \E query \in Queries, max_results \in 0..MaxResults, use_semantic \in BOOLEAN :
       sq' = [IdleSearch EXCEPT !.op = "search", !.query = query,
                                !.max_results = max_results,
                                !.use_semantic = use_semantic,
                                !.pc = IF Strip(query) = <<>> THEN "returned" ELSE "keyword"]
  /\ UNCHANGED <<db, disk, pc, loc, budget, faults, is_indexing, wk, reports, rejected,
                 extractions, usf, index_paths, wait_on, topic_model, app>>

\* Mutant of SearchKeyword: the provider is asked whenever one is attached.
SearchKeywordThenProvider ==
  /\ sq.pc = "keyword"
  /\ sq' = [sq EXCEPT
       !.rows = SearchFilesByKeywordList(db, QueryText(sq.query), sq.max_results * 2),
       !.keyword_results = KeywordSearch(db, sq.query, sq.max_results * 2),
       !.store_calls = @ + 1,
       !.pc = IF topic_model THEN "semantic" ELSE "combine"]
  /\ UNCHANGED <<db, disk, pc, loc, budget, faults, is_indexing, wk, reports, rejected,
                 extractions, usf, index_paths, wait_on, topic_model, app>>

\* searcher.py 37-41: _keyword_search(query, max_results * 2), then the test
\* "use_semantic and self.topic_model".
SearchKeyword ==
  /\ sq.pc = "keyword"
  /\ sq' = [sq EXCEPT
       !.rows = SearchFilesByKeywordList(db, QueryText(sq.query), sq.max_results * 2),
       !.keyword_results = KeywordSearch(db, sq.query, sq.max_results * 2),
       !.store_calls = @ + 1,
       !.pc = IF sq.use_semantic /\ topic_model THEN "semantic" ELSE "combine"]
  /\ UNCHANGED <<db, disk, pc, loc, budget, faults, is_indexing, wk, reports, rejected,
                 extractions, usf, index_paths, wait_on, topic_model, app>>

\* Mutant of SearchSemantic: an exception of the provider leaves search.
SearchSemanticPropagates ==
  /\ sq.pc = "semantic"
  /\ \E outcome \in ProviderOutcomes(sq.max_results * 2) :
       sq' = [sq EXCEPT !.outcome = outcome,
                        !.semantic_results = SemanticSearch(db, outcome),
                        !.provider_calls = @ + 1,
                        !.raised = outcome.raises,
                        !.pc = IF outcome.raises THEN "returned" ELSE "combine"]
  /\ UNCHANGED <<db, disk, pc, loc, budget, faults, is_indexing, wk, reports, rejected,
                 extractions, usf, index_paths, wait_on, topic_model, app>>

\* searcher.py 42, 94-119: _semantic_search(query, max_results * 2).
SearchSemantic ==
  /\ sq.pc = "semantic"
  /\ \E outcome \in ProviderOutcomes(sq.max_results * 2) :
       sq' = [sq EXCEPT !.outcome = outcome,
                        !.semantic_results = SemanticSearch(db, outcome),
                        !.provider_calls = @ + 1,
                        !.pc = "combine"]
  /\ UNCHANGED <<db, disk, pc, loc, budget, faults, is_indexing, wk, reports, rejected,
                 extractions, usf, index_paths, wait_on, topic_model, app>>

\* searcher.py 45-53: _combine_results with the weights 0.4 and
\* "0.5 if use_semantic else 0", and the slice [:max_results].
SearchCombine ==
  /\ sq.pc = "combine"
  /\ LET combined == CombineResults(sq.keyword_results, sq.semantic_results, 4,
                                    IF sq.use_semantic THEN 5 ELSE 0)
     IN sq' = [sq EXCEPT !.combined = combined,
                         !.result = Slice(combined, sq.max_results),
                         !.pc = "returned"]
  /\ UNCHANGED <<db, disk, pc, loc, budget, faults, is_indexing, wk, reports, rejected,
                 extractions, usf, index_paths, wait_on, topic_model, app>>

\* A caller of the Store's text search itself: db.search_files_by_keyword(term, limit).
KeywordCall ==
  /\ sq.pc = "idle"
  /\ \E query \in { q \in Queries : Strip(q) # <<>> }, limit \in 0..MaxResults :
       sq' = [IdleSearch EXCEPT !.op = "search_files_by_keyword", !.query = query,
                                !.limit = limit,
                                !.rows = SearchFilesByKeywordList(db, QueryText(query), limit),
                                !.store_calls = 1,
                                !.pc = "returned"]
  /\ UNCHANGED <<db, disk, pc, loc, budget, faults, is_indexing, wk, reports, rejected,
                 extractions, usf, index_paths, wait_on, topic_model, app>>

\* The catalog is one that insert_file built; a provider is attached or not
\* (Searcher.__init__, topic_model=None); n Store calls are to come.
CatalogInit(n) ==
  /\ db \in Catalogs
  /\ disk = db
  /\ pc = [t \in Threads |-> "idle"]
  /\ loc = [t \in Threads |-> IdleLoc]
  /\ budget = n
  /\ faults = [n |-> 0, orphans |-> {}]
  /\ is_indexing = FALSE
  /\ wk = <<>>
  /\ reports = <<>>
  /\ rejected = 0
  /\ extractions = 0
  /\ usf = [n |-> 0, cand |-> NoFileInfo, exists |-> FALSE]
  /\ wait_on = NotWaiting
  /\ index_paths = <<"dir">>
  /\ sq = IdleSearch
  /\ topic_model \in BOOLEAN
  /\ app = IdleApp

SearchInit == CatalogInit(0)

SearchNext ==
  \/ SearchCall \/ SearchKeyword \/ SearchSemantic \/ SearchCombine \/ KeywordCall

SpecSearch == SearchInit /\ [][SearchNext]_vars

\* ---------------------------------------------------------- rebuild_index
\* database.py 355-364, clear_all_data as one call: the four DELETEs and the
\* commit.
ClearAllDataWhole(d) ==
  FtsDeleteAll([d EXCEPT !.files = {}, !.topics = {}, !.metadata = {}])

\* main.py 117-123, rebuild_index: clear_all_data, then start_indexing() with
\* the configured roots (main.py 70-96, indexer.py 38-50), which returns at
\* "if self.is_indexing" when a run is active.
RebuildIndex ==
  /\ Len(wk) + rejected < MaxStarts
  /\ db' = ClearAllDataWhole(db)
  /\ disk' = db'
  /\ IF is_indexing
       THEN /\ rejected' = rejected + 1
            /\ UNCHANGED wk
       ELSE /\ wk' = Append(wk, NewWorker(index_paths))
            /\ UNCHANGED rejected
  /\ app' = [app EXCEPT !.rebuilds = @ + 1, !.runs_before = Len(wk)]
  /\ UNCHANGED <<pc, loc, budget, faults, is_indexing, reports, extractions, usf,
                 index_paths, wait_on, sq, topic_model>>

RebuildInit == InitWith(0, SingleRoots)

\* The application's two ways to start a run, and the runs.
RebuildNext == IdxNext \/ RebuildIndex

SpecRebuild == RebuildInit /\ [][RebuildNext]_vars

\* ----------------------------------------------------------- search window
\* main.py 66-68, SomeThinkApp.search(query) without a topic model: use_semantic
\* is False; MaxResults stands for the default max_results.
ControllerSearch(d, query) ==
  Slice(CombineResults(KeywordSearch(d, query, MaxResults * 2), <<>>, 4, 0), MaxResults)

\* The state of the window, which nothing else touches.
WindowFrame ==
  UNCHANGED <<db, disk, pc, loc, budget, faults, is_indexing, wk, reports, rejected,
              extractions, usf, index_paths, wait_on, sq, topic_model>>

\* main_window.py 108-115, _on_search_changed: the entry has new text, the
\* pending timer is cancelled and a new one set.
OnSearchChanged ==
  /\ app.window.keys < MaxSearches
  /\ \E text \in Queries :
       app' = [app EXCEPT !.window.entry = text, !.window.timer = TRUE,
                          !.window.keys = @ + 1]
  /\ WindowFrame

\* main_window.py 117-133, _perform_search when the timer fires: the stripped
\* text; empty, the results are cleared; else a new thread searches for it.
PerformSearch ==
  /\ app.window.timer
  /\ LET query == Strip(app.window.entry) IN
       app' = [app EXCEPT
         !.window.timer = FALSE,
         !.window.issued = Append(@, query),
         !.window.displayed = IF query = <<>> THEN <<>> ELSE @,
         !.window.threads = IF query = <<>> THEN @ ELSE @ \cup {Len(app.window.issued) + 1}]
  /\ WindowFrame

\* main_window.py 135-144, _search_worker(query): controller.search, then the
\* display is handed to the main loop with after(0, ...).
SearchWorker(k) ==
  /\ k \in app.window.threads
  /\ LET query == app.window.issued[k] IN
       app' = [app EXCEPT
         !.window.threads = @ \ {k},
         !.window.queue = Append(@, [query |-> query, results |-> ControllerSearch(db, query)])]
  /\ WindowFrame

\* main_window.py 146-159, _display_results(results, query), the next callback
\* of the main loop: the list is cleared and the results are shown.
DisplayResults ==
  /\ app.window.queue # <<>>
  /\ app' = [app EXCEPT !.window.queue = Tail(@),
                        !.window.displayed = Head(app.window.queue).results]
  /\ WindowFrame

WindowInit ==
  /\ CatalogInit(0)
  /\ ~topic_model

WindowNext ==
  \/ OnSearchChanged \/ PerformSearch \/ DisplayResults
  \/ \E k \in 1..MaxSearches : SearchWorker(k)

SpecWindow == WindowInit /\ [][WindowNext]_vars

\* ------------------------------------------------------------ topic model
RECURSIVE AssignTopics(_, _)
\* topic_model.py 213-216: update_file_topic for every document whose topic is
\* not the outliers'.
AssignTopics(d, topics) ==
  IF DOMAIN topics = {} THEN d
  ELSE LET id == CHOOSE x \in DOMAIN topics : TRUE
           rest == [x \in DOMAIN topics \ {id} |-> topics[x]]
       IN AssignTopics(IF topics[id] # Outlier THEN UpdateTopicOfRow(d, id, topics[id]) ELSE d,
                       rest)

\* database.py 232-238, get_all_files: SELECT * FROM files, a scan of the
\* table, which is in id order; the ids of the rows as listed.
AllFileIds(d) ==
  LET ids == { r.id : r \in d.files } IN
    CHOOSE s \in [1..Cardinality(ids) -> ids] :
      \A i, j \in 1..Cardinality(ids) : i < j => s[i] < s[j]

\* The entries of a list that satisfy Keep, in order.
RECURSIVE SelectIds(_, _)
SelectIds(s, keep) ==
  IF s = <<>> THEN <<>>
  ELSE (IF Head(s) \in keep THEN <<Head(s)>> ELSE <<>>) \o SelectIds(Tail(s), keep)

\* topic_model.py 80-109 and 182-216, _create_model down to
\* _save_topics_to_db(file_ids): the documents are the files with content
\* (90-95), topics the number the fitted model gave each document, topic_info
\* the numbers it gave.  Nothing is written when there is no document; that
\* _create_model gives up below ten of them (97-99) is scaled down, one file
\* here stands for as many as a cluster needs.  The embeddings are encoded from
\* the documents in the order of get_all_files (103-107).  Every insert_topic
\* and update_file_topic commits.
SaveTopicsToDb ==
  /\ CanCall("main")
  /\ LET file_ids == { r.id : r \in { x \in db.files : x.content_text # <<>> } } IN
       /\ file_ids # {}
       /\ \E topics \in [file_ids -> ClusterIds] :
            LET topic_info == { topics[id] : id \in file_ids } IN
              /\ db' = AssignTopics([db EXCEPT !.topics = @ \cup (topic_info \ {Outlier})],
                                    topics)
              /\ app' = [app EXCEPT !.saves = @ + 1, !.topic_info = topic_info,
                                     !.embeddings = SelectIds(AllFileIds(db), file_ids)]
  /\ disk' = db'
  /\ budget' = budget - 1
  /\ UNCHANGED <<pc, loc, faults, is_indexing, wk, reports, rejected, extractions, usf,
                 index_paths, wait_on, sq, topic_model>>

\* The orders np.argsort(similarities)[::-1] can give for n rows: the
\* similarities are whatever the query makes them.
RowOrders(n) ==
  { s \in [1..n -> 1..n] : \A i, j \in 1..n : i # j => s[i] # s[j] }

RECURSIVE SimilarEntries(_, _)
\* topic_model.py 284-290: for idx in top_indices, when idx < len(files), the
\* entry pairs files[idx]['id'] with similarities[idx].  Rows count from 1 here.
SimilarEntries(top_indices, files) ==
  IF top_indices = <<>> THEN <<>>
  ELSE (IF Head(top_indices) <= Len(files)
          THEN << [file_id |-> files[Head(top_indices)], row |-> Head(top_indices)] >>
          ELSE <<>>) \o SimilarEntries(Tail(top_indices), files)

\* topic_model.py 253-292, find_similar_documents(query, top_n): no embeddings,
\* the empty list (266-267); else the top_n rows by similarity, each looked up
\* in get_all_files() as it is now.
FindSimilarDocuments ==
  /\ Ready("main")
  /\ \E top_n \in 1..MaxResults :
       IF app.embeddings = <<>>
         THEN app' = [app EXCEPT !.similar = <<>>]
         ELSE \E order \in RowOrders(Len(app.embeddings)) :
                app' = [app EXCEPT !.similar =
                          SimilarEntries(SubSeq(order, 1, Min2(top_n, Len(order))),
                                         AllFileIds(db))]
  /\ UNCHANGED <<db, disk, pc, loc, budget, faults, is_indexing, wk, reports, rejected,
                 extractions, usf, index_paths, wait_on, sq, topic_model>>

SimilarInit ==
  /\ CatalogInit(MaxTopicCalls)
  /\ topic_model

\* The clustering pass, the provider's lookup, and the Store's callers that
\* change the catalog in between.
SimilarNext == SaveTopicsToDb \/ FindSimilarDocuments \/ Mutate("main")

SpecSimilar == SimilarInit /\ [][SimilarNext]_vars

TopicInit ==
  /\ CatalogInit(MaxTopicCalls)
  /\ ~topic_model

\* The clustering pass and a caller of insert_topic.
TopicNext ==
  \/ SaveTopicsToDb
  \/ CallInsertTopicOf("main", ClusterIds)
  \/ TopCommit("main")

SpecTopic == TopicInit /\ [][TopicNext]_vars

\* ------------------------------------------------------------------ claims
\* Thread t has executed a writing statement of its call and has not committed.
InWrite(t) ==
  pc[t] \in {"ins_ftsdel", "ins_ftsins", "ins_commit", "uft_commit", "del_fts",
             "del_commit", "top_commit", "clr_topics", "clr_metadata", "clr_fts",
             "clr_commit"}

Returned(t, op) == pc[t] = "done" /\ loc[t].op = op

RowIds(d) == { r.id : r \in d.files }

TermsOfId(d, id) == { p[2] : p \in { q \in d.files_fts : q[1] = id } }

\* C1: at most one indexing run is active at any time: a start_indexing call made
\* while a started run has not finished starts no second worker.
C1_AtMostOneActiveRun ==
  Cardinality({ w \in DOMAIN wk : Alive(w) }) <= 1

\* C2: a reader running beside a mutating call never sees a files row without its
\* full-text entry, nor a full-text entry without its row.
C2_ReaderSeesRowAndShadowTogether ==
  \A t \in Threads :
    loc[t].has_seen => RowIds(loc[t].seen) = FtsRowIds(loc[t].seen)

\* C3: mutating calls of different threads are serialized: two threads never both
\* have written statements of an uncommitted call, and what a commit makes
\* durable never holds a files row whose full-text entry is still to be written.
C3_MutatingCallsSerialized ==
  /\ \A t1, t2 \in Threads : (InWrite(t1) /\ InWrite(t2)) => t1 = t2
  /\ RowIds(disk) \subseteq FtsRowIds(disk)

\* C4: what an insert_file that raised part-way had written to files is never
\* made durable, also not by the commit of a later call.
C4_FailedInsertNeverDurable == faults.orphans \cap disk.files = {}

\* C5: with no mutating call in progress the full-text index holds exactly the ids
\* of the files rows, and for each row exactly the terms of its filename and
\* content_text.
C5_ShadowInLockstep ==
  (\A t \in Threads : Ready(t)) =>
    /\ FtsRowIds(db) = RowIds(db)
    /\ \A r \in db.files : TermsOfId(db, r.id) = RowTokens(r.filename, r.content_text)

\* C6: no two file records share a path, in the connection's view and on disk,
\* under every interleaving of two threads.
C6_PathUnique ==
  \A d \in {db, disk} : \A r1, r2 \in d.files : r1.path = r2.path => r1 = r2

\* C6 witness: two threads took the insert branch for one path; the first row is
\* in, the second INSERT met the UNIQUE constraint.
C6_Witness ==
  \E t1, t2 \in Threads :
    /\ t1 # t2
    /\ loc[t1].op = "insert_file" /\ loc[t2].op = "insert_file"
    /\ loc[t1].fi.path = loc[t2].fi.path
    /\ loc[t1].wrote # {} /\ loc[t1].wrote \subseteq db.files
    /\ loc[t2].raised

\* C7: insert_file of a path that has a record returns that record's id and the
\* record keeps it; insert_file of a path without a record returns an id that no
\* record had, and the new record carries it.
C7_UpsertKeepsOrAssignsId ==
  Returned("main", "insert_file") =>
    LET l == loc["main"]
        old == { r \in l.pre.files : r.path = l.fi.path }
    IN  /\ ~l.raised
        /\ \E r \in db.files : r.path = l.fi.path /\ r.id = l.ret_id
        /\ IF old # {} THEN \A r \in old : r.id = l.ret_id
                       ELSE l.ret_id \notin RowIds(l.pre)

\* C7 witness: insert_file has returned from updating an existing path with
\* changed content, and the id it returned is the one the record had.
C7_Witness ==
  /\ Returned("main", "insert_file")
  /\ \E r \in loc["main"].pre.files :
       /\ r.path = loc["main"].fi.path
       /\ r.content_text # loc["main"].fi.content_text
       /\ r.id = loc["main"].ret_id

\* C8: a second insert_file with the same path and the same fields does not
\* raise and leaves the Store as the first call left it, with one record for the
\* path and its full-text entry.
C8_UpsertIdempotent ==
  ( /\ Returned("main", "insert_file")
    /\ loc["main"].prev_op = "insert_file"
    /\ loc["main"].prev_fi = loc["main"].fi ) =>
      /\ ~loc["main"].raised
      /\ db = loc["main"].pre
      /\ disk = db
      /\ Cardinality({ r \in db.files : r.path = loc["main"].fi.path }) = 1
      /\ \A r \in db.files :
           r.path = loc["main"].fi.path =>
             RowTokens(r.filename, r.content_text) \subseteq TermsOfId(db, r.id)

\* C8 witness: two consecutive insert_file calls with the same fields have
\* returned.
C8_Witness ==
  /\ Returned("main", "insert_file")
  /\ loc["main"].prev_op = "insert_file"
  /\ loc["main"].prev_fi = loc["main"].fi
  /\ loc["main"].ret_id # 0

\* C9: a text search issued right after insert_file(fi) returns fi's record
\* exactly when the term occurs in fi's filename or content: terms of the content
\* it replaced no longer find it.
C9_SearchReflectsLatestContent ==
  ( /\ Returned("main", "search_files_by_keyword")
    /\ loc["main"].prev_op = "insert_file" ) =>
      \A r \in db.files :
        r.path = loc["main"].prev_fi.path =>
          ( r \in loc["main"].ret_rows <=>
              loc["main"].term \in
                RowTokens(loc["main"].prev_fi.filename, loc["main"].prev_fi.content_text) )

\* C10: after delete_file(id) or delete_file_by_path(path) the row is gone, its
\* entry is out of the full-text index, no text search returns it, and no metadata
\* row refers to a missing file.
C10_DeleteRemovesRowShadowMetadata ==
  ( Returned("main", "delete_file") \/ Returned("main", "delete_file_by_path") ) =>
      /\ loc["main"].fid \notin RowIds(db)
      /\ loc["main"].fid \notin FtsRowIds(db)
      /\ \A term \in Terms : \A r \in SearchRows(db, term) : r.id # loc["main"].fid
      /\ \A m \in db.metadata : m.file_id \in RowIds(db)

\* C11: when clear_all_data has returned, with no other call in progress, the Store
\* holds no file record, no topic, no metadata row and no full-text entry.
C11_ClearLeavesNothing ==
  ( Returned("main", "clear_all_data") /\ Ready("index") ) =>
      /\ db.files = {}
      /\ db.topics = {}
      /\ db.metadata = {}
      /\ db.files_fts = {}

\* C12: insert_file with an empty or a missing path fails and leaves the Store as
\* it was: no file record and no full-text entry is created.
C12_BadPathRefused ==
  ( Returned("main", "insert_file") /\ loc["main"].fi.path \in BadPaths ) =>
      /\ loc["main"].raised
      /\ db = loc["main"].pre

\* The call thread t has returned from was given a path or an id that had no
\* record when the call began.
NotFoundCall(t) ==
  LET l == loc[t] IN
    /\ pc[t] = "done"
    /\ \/ l.op \in {"get_file_by_path", "delete_file_by_path"}
          /\ \A r \in l.pre.files : r.path # l.path
       \/ l.op \in {"get_file_by_id", "delete_file", "update_file_topic"}
          /\ l.fid \notin RowIds(l.pre)
       \/ l.op = "get_topic" /\ l.tid \notin l.pre.topics

\* C13: a lookup, delete or topic update of an id or path that has no record
\* returns nothing, does not raise, and leaves files, full-text index, topics and
\* metadata as they were.
C13_NotFoundIsNoEffect ==
  NotFoundCall("main") =>
    /\ ~loc["main"].raised
    /\ loc["main"].ret_rows = {}
    /\ db = loc["main"].pre
    /\ disk = db

\* C13 witness: delete_file of an id without a record has returned while other
\* records, with their full-text entries, exist.
C13_Witness ==
  /\ NotFoundCall("main")
  /\ loc["main"].op = "delete_file"
  /\ loc["main"].pre.files # {}
  /\ loc["main"].pre.files_fts # {}

\* The record of the candidate's path was stored with a modified time that is not
\* older than the candidate's.
StoredNotOlder(d, cand) ==
  \E r \in d.files, m \in Mtimes :
    /\ r.path = cand.path
    /\ r.modified_time = IsoFormat(m)
    /\ DtLeq(cand.modified_time, m)

\* C14: indexing a candidate whose modified time is not later than the stored one,
\* in a run or through update_single_file, calls no extraction and writes nothing
\* to the Store.
C14_IncrementalSkip ==
  [][ /\ \A w \in DOMAIN wk :
           ( /\ wk[w].pc = "loop"
             /\ wk'[w].i = wk[w].i + 1
             /\ StoredNotOlder(db, wk[w].all_files[wk[w].i]) ) =>
               (db' = db /\ disk' = disk /\ extractions' = extractions)
      /\ ( /\ usf'.n = usf.n + 1
           /\ usf'.exists
           /\ StoredNotOlder(db, usf'.cand) ) =>
             (db' = db /\ disk' = disk /\ extractions' = extractions)
    ]_vars

\* C14 witness: a second run has passed a candidate with no extraction: the one
\* extraction so far is that of the first run.
C14_Witness ==
  /\ Len(wk) = 2
  /\ wk[1].indexed_files = 1 /\ wk[1].failures = 0
  /\ wk[2].indexed_files = 1 /\ wk[2].failures = 0
  /\ extractions = 1
  /\ usf.n = 0
  /\ db.files # {}

\* C15: a run in which the processing of a candidate raised goes on to every later
\* candidate and ends with its complete callback fired, the report counting the
\* candidates that did not raise.
C15_ItemFailureDoesNotAbort ==
  \A w \in DOMAIN wk :
    ( wk[w].failures > 0 /\ wk[w].pc \in {"finally", "dead"} ) =>
        /\ wk[w].i = Len(wk[w].all_files) + 1
        /\ wk[w].indexed_files + wk[w].failures = wk[w].total_files
        /\ wk[w].completes = 1
        /\ \E k \in DOMAIN reports :
             reports[k] = <<wk[w].indexed_files, wk[w].total_files>>

\* C15 witness: a run of two candidates has ended; the first raised, the second
\* was indexed.
C15_Witness ==
  \E w \in DOMAIN wk :
    /\ wk[w].pc = "dead"
    /\ wk[w].total_files = 2
    /\ wk[w].failures = 1
    /\ wk[w].progress = << <<0, 0>>, <<2, 2>> >>

\* The run of thread w went through its scan and its loop.
FinishedNormally(w) ==
  /\ wk[w].r = Len(wk[w].paths) + 1
  /\ wk[w].i = Len(wk[w].all_files) + 1

\* The run of thread w left its scan at a root whose enumeration raised.
EnumerationRaised(w) == wk[w].error = "scan_directory"

\* C16: a run that has ended, having finished normally or having met a structural
\* error in its enumeration, has fired its complete callback exactly once.
C16_CompleteFiredOncePerRun ==
  \A w \in DOMAIN wk :
    ( wk[w].pc = "dead" /\ (FinishedNormally(w) \/ EnumerationRaised(w)) ) =>
        wk[w].completes = 1

\* A progress call made for a candidate (the call before the scan has index 0).
IsItemCall(p) == p[1] >= 1

\* C17: when the complete callback fires, progress has been fired for the
\* candidates exactly as <<1, total>>, <<2, total>>, ..., <<total, total>>, in this
\* order, total being the total of the completion report.
C17_ProgressOncePerCandidateInOrder ==
  \A w \in DOMAIN wk :
    wk[w].completes = 1 =>
      /\ SelectSeq(wk[w].progress, IsItemCall) =
           [k \in 1..wk[w].total_files |-> <<k, wk[w].total_files>>]
      /\ \E k \in DOMAIN reports : reports[k][2] = wk[w].total_files

\* The roots given to thread w hold one that cannot be opened and one that can.
MixedRoots(w) ==
  /\ \E k \in DOMAIN wk[w].paths : wk[w].paths[k] \in {"missing", "denied"}
  /\ \E k \in DOMAIN wk[w].paths : wk[w].paths[k] = "dir"

\* C18: a run given a root that cannot be opened beside a valid one, and whose
\* callbacks did not raise, enumerates every root, meets no error, and ends with
\* one completion report, whose total is the number of candidates found.
C18_PerRootIsolation ==
  \A w \in DOMAIN wk :
    ( wk[w].pc = "dead" /\ MixedRoots(w) /\ wk[w].error # "progress_callback" ) =>
        /\ wk[w].r = Len(wk[w].paths) + 1
        /\ wk[w].error = "none"
        /\ wk[w].completes = 1
        /\ wk[w].total_files = Len(wk[w].all_files)
        /\ \E k \in DOMAIN reports : reports[k][2] = Len(wk[w].all_files)

\* The thread of run w has ended.
Ended(w) == w \in DOMAIN wk /\ wk[w].pc = "dead"

\* C19: every run that has started ends, leaving is_indexing false, whether it
\* finished, failed or had a callback raise; and a start_indexing call made while
\* is_indexing is false starts a run.
C19_RunEndsAndIndexerIdle ==
  /\ \A w \in 1..MaxStarts : [](Alive(w) => <>(Ended(w) /\ ~is_indexing))
  /\ [][ ( /\ ~is_indexing
           /\ Len(wk') + rejected' = Len(wk) + rejected + 1 ) =>
             ( Len(wk') = Len(wk) + 1 /\ wk'[Len(wk')].pc = "started" ) ]_vars

\* C19 witness: a run failed in its enumeration, another had its progress callback
\* raise; both have ended and the indexer is idle.
C19_Witness ==
  /\ Len(wk) = 2
  /\ Ended(1) /\ Ended(2)
  /\ {wk[1].error, wk[2].error} \cap {"progress_callback", "scan_directory"} # {}
  /\ wk[2].error # wk[1].error
  /\ ~is_indexing

\* C20: wait_for_completion, with no start_indexing call made while it waits,
\* returns only when every run started before it has ended and is_indexing is
\* false.
C20_WaitReturnsWhenNoRunActive ==
  [][ ( /\ wait_on.thread >= 0
        /\ wait_on' = NotWaiting
        /\ Len(wk) + rejected = wait_on.starts ) =>
          ( Quiet /\ ~is_indexing ) ]_vars

\* C21: update_single_file for a path that is gone from disk leaves no record and
\* no full-text entry of that path, extracts nothing and adds no record; with no
\* record of the path it changes nothing.
C21_UpdateSingleRemovesGonePath ==
  [][ ( usf'.n = usf.n + 1 /\ ~usf'.exists ) =>
        LET ids == { r.id : r \in { x \in db.files : x.path = usf'.cand.path } } IN
          /\ \A r \in db'.files : r.path # usf'.cand.path
          /\ \A e \in db'.files_fts : e[1] \notin ids
          /\ db'.files \subseteq db.files
          /\ extractions' = extractions
          /\ ids = {} => db' = db ]_vars

\* Searcher.search has returned.
SearchReturned == sq.op = "search" /\ sq.pc = "returned"

\* The query is empty or holds whitespace only.
IsBlank(q) == \A i \in DOMAIN q : q[i] \in Whitespace

\* C22: a search with an empty or whitespace-only query returns the empty list
\* and has called neither the Store's text search nor the provider.
C22_BlankQueryReturnsEmpty ==
  ( SearchReturned /\ IsBlank(sq.query) ) =>
      /\ sq.result = <<>>
      /\ sq.store_calls = 0
      /\ sq.provider_calls = 0

\* C22 witness: a whitespace-only query, semantic search asked for, on a catalog
\* with files and with a provider attached.
C22_Witness ==
  /\ SearchReturned
  /\ sq.query = <<" ", "\t">>
  /\ sq.use_semantic
  /\ topic_model
  /\ db.files # {}

\* C23: when the provider raised, the search still returns, and returns what the
\* lexical candidates alone fuse to under the weights of a semantic search.
C23_ProviderFailureIsEmptySemantic ==
  ( SearchReturned /\ sq.use_semantic /\ sq.outcome.raises ) =>
      /\ ~sq.raised
      /\ sq.semantic_results = <<>>
      /\ sq.result = Slice(CombineResults(sq.keyword_results, <<>>, 4, 5), sq.max_results)

\* C23 witness: the provider raised and the search returned a lexical result.
C23_Witness ==
  /\ SearchReturned
  /\ sq.outcome.raises
  /\ sq.provider_calls = 1
  /\ sq.result # <<>>

\* C24: the final score of every returned result lies in [0, 1].
C24_FinalScoreInUnitInterval ==
  SearchReturned =>
    \A i \in DOMAIN sq.result : 0 <= sq.result[i][2] /\ sq.result[i][2] <= FinalUnit

\* The list a search gives when only the lexical signal counts: each lexical
\* candidate with 0.4 times its lexical score cut at 1.
LexicalOnly(keyword_results, max_results) ==
  Slice(SortByScoreDesc([i \in DOMAIN keyword_results |->
                           <<keyword_results[i][1], 4 * Min2(keyword_results[i][2], Unit)>>]),
        max_results)

\* C25: a search with use_semantic false never calls the provider, and its result
\* is the lexical-only list, with or without a provider attached.
C25_SemanticOffIsLexicalOnly ==
  ( SearchReturned /\ ~IsBlank(sq.query) /\ ~sq.use_semantic ) =>
      /\ sq.provider_calls = 0
      /\ sq.result = LexicalOnly(KeywordSearch(db, sq.query, sq.max_results * 2),
                                 sq.max_results)

\* C25 witness: a provider is attached, use_semantic is false, and the search
\* returned a result.
C25_Witness ==
  /\ SearchReturned
  /\ topic_model
  /\ ~sq.use_semantic
  /\ sq.result # <<>>

\* The score a signal gave the file of this path, 0 when it gave none.
SignalScore(results, path) ==
  LET at == { i \in DOMAIN results : results[i][1].path = path } IN
    IF at = {} THEN 0 ELSE results[CHOOSE i \in at : TRUE][2]

ScoreGrid == { -500, 0, 300, 500, 1000, 1700 }

\* Two entries of the fused list with the same semantic score, the first with the
\* higher lexical score.
SameSemanticHigherLexical(i, j) ==
  /\ SignalScore(sq.semantic_results, sq.combined[i][1].path) =
       SignalScore(sq.semantic_results, sq.combined[j][1].path)
  /\ SignalScore(sq.keyword_results, sq.combined[i][1].path) >
       SignalScore(sq.keyword_results, sq.combined[j][1].path)

\* C26: with the semantic score the same, the higher lexical score never gets the
\* lower final score: for every pair of inputs of the fusion formula, and for
\* every pair of candidates of one search.
C26_FusionMonotoneInLexical ==
  /\ \A k1, k2, sem \in ScoreGrid, w \in {0, 5} :
       k1 < k2 =>
         FinalScore([keyword_score |-> k1, semantic_score |-> sem], 4, w) <=
           FinalScore([keyword_score |-> k2, semantic_score |-> sem], 4, w)
  /\ SearchReturned =>
       \A i, j \in DOMAIN sq.combined :
         SameSemanticHigherLexical(i, j) => sq.combined[i][2] >= sq.combined[j][2]

\* C26 witness: a search fused a lexical candidate and a semantic-only one that
\* the provider gave the same similarity.
C26_Witness ==
  /\ SearchReturned
  /\ \E i, j \in DOMAIN sq.combined :
       /\ SameSemanticHigherLexical(i, j)
       /\ SignalScore(sq.semantic_results, sq.combined[i][1].path) = 300

\* C27: the returned list, also with no provider attached, is sorted by final
\* score descending and, among equal final scores, by id ascending.
C27_SortedByScoreThenId ==
  ( SearchReturned /\ ~topic_model ) =>
    \A i, j \in DOMAIN sq.result :
      i < j =>
        /\ sq.result[i][2] >= sq.result[j][2]
        /\ sq.result[i][2] = sq.result[j][2] => sq.result[i][1].id < sq.result[j][1].id

\* The paths of the candidates of either signal, and the score the fusion
\* formula gives one of them.
CandidatePaths ==
  { sq.keyword_results[i][1].path : i \in DOMAIN sq.keyword_results } \cup
  { sq.semantic_results[i][1].path : i \in DOMAIN sq.semantic_results }

Fused(path) ==
  4 * Min2(SignalScore(sq.keyword_results, path), Unit) +
  (IF sq.use_semantic THEN 5 ELSE 0) * Min2(SignalScore(sq.semantic_results, path), Unit)

\* C28: the returned list holds at most max_results entries, each path once, and
\* they are the highest-scored candidates of the union of both signals.
C28_TopOfFusedUnion ==
  ( SearchReturned /\ ~IsBlank(sq.query) ) =>
    LET res == sq.result
        got == { res[i][1].path : i \in DOMAIN res }
    IN /\ Len(res) = Min2(sq.max_results, Cardinality(CandidatePaths))
       /\ \A i, j \in DOMAIN res : res[i][1].path = res[j][1].path => i = j
       /\ \A i \in DOMAIN res :
            /\ res[i][1].path \in CandidatePaths
            /\ res[i][2] = Fused(res[i][1].path)
            /\ \A p \in CandidatePaths \ got : res[i][2] >= Fused(p)

\* C28 witness: one file is a candidate of both signals, another candidate was
\* cut off by max_results.
C28_Witness ==
  /\ SearchReturned
  /\ sq.max_results = 1
  /\ Len(sq.result) = 1
  /\ Cardinality(CandidatePaths) = 2
  /\ \E i \in DOMAIN sq.keyword_results, j \in DOMAIN sq.semantic_results :
       sq.keyword_results[i][1].path = sq.semantic_results[j][1].path

\* search_files_by_keyword has returned to a caller of its own.
KeywordReturned == sq.op = "search_files_by_keyword" /\ sq.pc = "returned"

C30_NoSentinelTopicPersisted == Outlier \notin disk.topics

\* C31: topic_id and embedding_vector, which one UPDATE writes together and the
\* row's topic_id stands for, are NULL in a newly inserted record; a call other
\* than update_file_topic leaves them as they were in every record it keeps,
\* insert_file on an existing path included; update_file_topic changes nothing
\* else of the record and no full-text entry.
C31_TopicFieldsFrame ==
  ( pc["main"] = "done" /\ ~loc["main"].raised ) =>
    LET l == loc["main"] IN
      IF l.op = "update_file_topic"
        THEN /\ db.files_fts = l.pre.files_fts
             /\ RowIds(db) = RowIds(l.pre)
             /\ \A r \in db.files : \E r0 \in l.pre.files :
                  /\ r0.id = r.id
                  /\ [r EXCEPT !.topic_id = {}] = [r0 EXCEPT !.topic_id = {}]
                  /\ r.id # l.fid => r.topic_id = r0.topic_id
        ELSE \A r \in db.files :
               IF \E r0 \in l.pre.files : r0.path = r.path
                 THEN \A r0 \in l.pre.files : r0.path = r.path => r.topic_id = r0.topic_id
                 ELSE r.topic_id = {}

\* C31 witness: insert_file has updated a record that update_file_topic had given
\* a topic.
C31_Witness ==
  /\ Returned("main", "insert_file")
  /\ \E r0 \in loc["main"].pre.files :
       /\ r0.path = loc["main"].fi.path
       /\ r0.topic_id # {}
       /\ r0.content_text # loc["main"].fi.content_text

\* C32: when extract_text_content raises for a candidate that _index_file does
\* not skip, the candidate is upserted with empty text and its modified time, is
\* counted as indexed and not as failed, and the loop goes on.
C32_ExtractionFailureIsEmptyText ==
  [][ \A w \in DOMAIN wk :
        wk'[w].extract_raised = wk[w].extract_raised + 1 =>
          LET cand == wk[w].all_files[wk[w].i] IN
            /\ ~Unmodified(db, cand)
            /\ \E r \in db'.files :
                 /\ r.path = cand.path
                 /\ r.content_text = <<>>
                 /\ r.modified_time = IsoFormat(cand.modified_time)
            /\ wk'[w].indexed_files = wk[w].indexed_files + 1
            /\ wk'[w].failures = wk[w].failures
            /\ wk'[w].pc = "loop" ]_vars

\* C32 witness: a run has ended with every candidate counted as indexed, one of
\* them after its extraction raised; its record has no text.
C32_Witness ==
  \E w \in DOMAIN wk :
    /\ wk[w].pc = "dead"
    /\ wk[w].extract_raised = 1
    /\ wk[w].total_files = 2
    /\ reports = << <<2, 2>> >>
    /\ \E r \in db.files : r.content_text = <<>>

\* C34: every completion report <<succeeded, total>> is that of a run whose
\* total is the number of candidates it enumerated and whose succeeded is the
\* number of them whose _index_file did not raise, so 0 <= succeeded <= total.
C34_ReportCounts ==
  /\ \A k \in DOMAIN reports :
       /\ 0 <= reports[k][1]
       /\ reports[k][1] <= reports[k][2]
       /\ \E w \in DOMAIN wk :
            /\ wk[w].completes = 1
            /\ reports[k] = <<wk[w].indexed_files, wk[w].total_files>>
  /\ \A w \in DOMAIN wk :
       wk[w].completes = 1 =>
         /\ wk[w].total_files = Len(wk[w].all_files)
         /\ wk[w].indexed_files = Len(wk[w].all_files) - wk[w].failures
         /\ \E k \in DOMAIN reports :
              reports[k] = <<wk[w].indexed_files, wk[w].total_files>>

\* C34 witness: a run of two candidates reported one success: one candidate
\* raised, the other was skipped as unchanged.
C34_Witness ==
  \E w \in DOMAIN wk :
    /\ wk[w].completes = 1
    /\ wk[w].failures = 1
    /\ wk[w].progress = << <<0, 0>>, <<2, 2>> >>
    /\ <<1, 2>> \in { reports[k] : k \in DOMAIN reports }
    /\ w > 1
    /\ extractions = 1

C33_TopicsAreThoseOfTheRun ==
  [][ (app'.saves = app.saves + 1 /\ loc["main"].op = "none") =>
        db'.topics = app'.topic_info \ {Outlier} ]_vars

\* C37: the id of a newly inserted record is larger than every id given before
\* (the sequence counter never goes back, and it bounds every id in the table),
\* so it equals no earlier record's id, removed or not.
C37_IdsNeverReused ==
  [][ /\ db'.seq >= db.seq
      /\ RowIds(db) \subseteq 1..db.seq
      /\ \A r \in db'.files :
           r.id \notin RowIds(db) => (r.id > db.seq /\ r.id <= db'.seq) ]_vars

\* C37 witness: insert_file returned a new id right after delete_file or
\* clear_all_data had removed the record with the largest id given so far.
C37_Witness ==
  /\ Returned("main", "insert_file")
  /\ loc["main"].prev_op \in {"delete_file", "clear_all_data"}
  /\ RowIds(loc["main"].pre) = {}
  /\ loc["main"].pre.seq = 1
  /\ loc["main"].ret_id = 2
  /\ RowIds(db) = {2}

\* C36: once rebuild_index has been called and every run has ended, a run has
\* begun after the clear: the catalog is not left with what an older run wrote.
C36_RebuildStartsRun ==
  (app.rebuilds > 0 /\ Quiet /\ ~is_indexing) => Len(wk) > app.runs_before

\* C38: every entry find_similar_documents returned carries the id of the file
\* whose content was encoded into the row the entry's similarity belongs to.
C38_SimilarityPairedWithItsFile ==
  \A k \in DOMAIN app.similar :
    app.similar[k].file_id = app.embeddings[app.similar[k].row]

\* C39: once no search is pending in the window (no timer, no worker thread, no
\* callback waiting), the displayed list is the result of the query issued
\* last, and empty when that query was empty.
C39_DisplayedIsLatestQuery ==
  LET w == app.window IN
    ( ~w.timer /\ w.threads = {} /\ w.queue = <<>> /\ w.issued # <<>> ) =>
      w.displayed = IF w.issued[Len(w.issued)] = <<>> THEN <<>>
                    ELSE ControllerSearch(db, w.issued[Len(w.issued)])

====
